---- MODULE Spec2Model ----
(***************************************************************************)
(* Model of the PPM LoRa gateway (src/LoRa.py, src/main.py,                *)
(* src/InfluxDB.py): the PVM packet codec, the radio mode as commanded by  *)
(* the receive handler, the transmit-complete handler, the periodic        *)
(* transmitter thread and the main program.                                *)
(*                                                                         *)
(* Python values are modelled as follows.  A str is a sequence of code     *)
(* points, a bytes object a sequence of numbers in 0..255, None the empty  *)
(* sequence and a returned dict a one-element sequence holding a record.   *)
(* Python integers are unbounded, so no operator below masks its result.   *)
(***************************************************************************)
EXTENDS Integers, Sequences, FiniteSets, TLC

\* ------------------------------------------------------------------------
\* Program constants (src/LoRa.py, class LoRaPacket)
\* ------------------------------------------------------------------------
PACKET_SIZE == 126
PAYLOAD_SIZE == 100
TIMESTAMP_SIZE == 20
TYPE_GPS == 1
TYPE_SOS == 2
TYPE_KEEPALIVE == 3

\* Size of the frame without its checksum: payload[:124] in parse_packet.
CRC_OFFSET == 124

\* Initial register and polynomial mask of calculate_crc16.
CRC_INIT == 65535
CRC_POLY == 40961

\* ------------------------------------------------------------------------
\* Bounds of the model
\* ------------------------------------------------------------------------
\* How many bytes past the field size an over-length payload or timestamp
\* may run, and how many bytes short of it.
MaxOver == 2
\* How many receive-complete events the driver delivers.
MaxRx == 2
\* How many send cycles the periodic transmitter starts.
MaxCycles == 2
\* The transmitter's `interval` (SEND_INTERVAL seconds in main.py), in
\* one-second ticks of its wait loop.
Interval == 2

\* ------------------------------------------------------------------------
\* Integer helpers
\* ------------------------------------------------------------------------
RECURSIVE XorBits(_, _)
\* a ^ b, bit by bit
XorBits(a, b) ==
    IF a = 0 THEN b
    ELSE IF b = 0 THEN a
    ELSE (((a % 2) + (b % 2)) % 2) + 2 * XorBits(a \div 2, b \div 2)

\* The XOR of two hexadecimal digits, tabulated once.
XorDigit == [x \in 0..15 |-> [y \in 0..15 |-> XorBits(x, y)]]

RECURSIVE BitXor(_, _)
\* a ^ b on non-negative Python integers, four bits at a time.
BitXor(a, b) ==
    IF a = 0 THEN b
    ELSE IF b = 0 THEN a
    ELSE XorDigit[a % 16][b % 16] + 16 * BitXor(a \div 16, b \div 16)

\* bytes.ljust(width, b'\x00'): pad on the right, never shorten.
Ljust(bs, width) ==
    IF Len(bs) >= width THEN bs
    ELSE bs \o [i \in 1..(width - Len(bs)) |-> 0]

\* bs[:n] of Python: the first n elements, all of bs when it is shorter.
Prefix(bs, n) == SubSeq(bs, 1, IF Len(bs) < n THEN Len(bs) ELSE n)

\* ------------------------------------------------------------------------
\* str.encode('utf-8') and bytes.decode('utf-8', 'ignore')
\* ------------------------------------------------------------------------
\* The UTF-8 bytes of one code point (surrogates, which encode() rejects,
\* are not among the modelled inputs).
Utf8Char(cp) ==
    IF cp < 128 THEN <<cp>>
    ELSE IF cp < 2048 THEN <<192 + (cp \div 64), 128 + (cp % 64)>>
    ELSE IF cp < 65536 THEN
        <<224 + (cp \div 4096), 128 + ((cp \div 64) % 64), 128 + (cp % 64)>>
    ELSE <<240 + (cp \div 262144), 128 + ((cp \div 4096) % 64),
           128 + ((cp \div 64) % 64), 128 + (cp % 64)>>

RECURSIVE Utf8EncodeRange(_, _, _)
\* The bytes of the characters s[lo..hi], one after the other (the range is
\* halved so that the evaluation stays shallow).
Utf8EncodeRange(s, lo, hi) ==
    IF lo > hi THEN <<>>
    ELSE IF lo = hi THEN Utf8Char(s[lo])
    ELSE LET mid == (lo + hi) \div 2
         IN  Utf8EncodeRange(s, lo, mid) \o Utf8EncodeRange(s, mid + 1, hi)

Utf8Encode(s) == Utf8EncodeRange(s, 1, Len(s))

IsCont(b) == b >= 128 /\ b <= 191

\* Number of bytes of the well-formed UTF-8 sequence that starts at bs[i],
\* 0 when none starts there (Unicode table 3-7, as CPython's decoder).
Utf8SeqLen(bs, i) ==
    LET n == Len(bs)
        b0 == bs[i]
        b1 == IF i + 1 <= n THEN bs[i + 1] ELSE 0
        b2 == IF i + 2 <= n THEN bs[i + 2] ELSE 0
        b3 == IF i + 3 <= n THEN bs[i + 3] ELSE 0
    IN  IF b0 < 128 THEN 1
        ELSE IF b0 >= 194 /\ b0 <= 223 THEN (IF IsCont(b1) THEN 2 ELSE 0)
        ELSE IF b0 = 224 THEN
            (IF b1 >= 160 /\ b1 <= 191 /\ IsCont(b2) THEN 3 ELSE 0)
        ELSE IF b0 = 237 THEN
            (IF b1 >= 128 /\ b1 <= 159 /\ IsCont(b2) THEN 3 ELSE 0)
        ELSE IF b0 >= 225 /\ b0 <= 239 THEN
            (IF IsCont(b1) /\ IsCont(b2) THEN 3 ELSE 0)
        ELSE IF b0 = 240 THEN
            (IF b1 >= 144 /\ b1 <= 191 /\ IsCont(b2) /\ IsCont(b3) THEN 4 ELSE 0)
        ELSE IF b0 >= 241 /\ b0 <= 243 THEN
            (IF IsCont(b1) /\ IsCont(b2) /\ IsCont(b3) THEN 4 ELSE 0)
        ELSE IF b0 = 244 THEN
            (IF b1 >= 128 /\ b1 <= 143 /\ IsCont(b2) /\ IsCont(b3) THEN 4 ELSE 0)
        ELSE 0

\* The code point of the well-formed sequence of k bytes at bs[i].
Utf8CodePoint(bs, i, k) ==
    IF k = 1 THEN bs[i]
    ELSE IF k = 2 THEN (bs[i] - 192) * 64 + (bs[i + 1] - 128)
    ELSE IF k = 3 THEN
        (bs[i] - 224) * 4096 + (bs[i + 1] - 128) * 64 + (bs[i + 2] - 128)
    ELSE (bs[i] - 240) * 262144 + (bs[i + 1] - 128) * 4096
         + (bs[i + 2] - 128) * 64 + (bs[i + 3] - 128)

RECURSIVE Utf8DecodeRange(_, _, _)
\* errors='ignore': the decoder emits the character of every well-formed
\* sequence and drops the bytes of an ill-formed one.  The second and later
\* bytes of a well-formed sequence, and the bytes dropped after an
\* ill-formed lead byte, are continuation bytes, at which no sequence
\* starts; every other byte is one the decoder starts a sequence at.  So
\* the text is the characters of the well-formed sequences starting at
\* bs[lo..hi], in order (the range is halved so that the evaluation stays
\* shallow).
Utf8DecodeRange(bs, lo, hi) ==
    IF lo > hi THEN <<>>
    ELSE IF lo = hi THEN
        LET k == Utf8SeqLen(bs, lo)
        IN  IF k = 0 THEN <<>> ELSE <<Utf8CodePoint(bs, lo, k)>>
    ELSE LET mid == (lo + hi) \div 2
         IN  Utf8DecodeRange(bs, lo, mid) \o Utf8DecodeRange(bs, mid + 1, hi)

Utf8DecodeIgnore(bs) == Utf8DecodeRange(bs, 1, Len(bs))

\* str.rstrip('\x00'): the text up to its last character that is not NUL
RstripNul(s) ==
    LET kept == {i \in 1..Len(s) : s[i] # 0}
        last == IF kept = {} THEN 0
                ELSE CHOOSE i \in kept : \A j \in kept : j <= i
    IN  SubSeq(s, 1, last)

\* ------------------------------------------------------------------------
\* struct.pack / struct.unpack, little-endian
\* ------------------------------------------------------------------------
\* '>H': the two bytes in the other order
PackU16_BigEndian(v) == <<v \div 256, v % 256>>

\* '<H'
PackU16(v) == <<v % 256, v \div 256>>
UnpackU16(bs, i) == bs[i] + 256 * bs[i + 1]

\* struct.pack('<HBB100s20s', ...)
PackHeader(device_id, packet_type, priority, payload_bytes, timestamp_bytes) ==
    PackU16(device_id) \o <<packet_type, priority>>
        \o Ljust(Prefix(payload_bytes, PAYLOAD_SIZE), PAYLOAD_SIZE)
        \o Ljust(Prefix(timestamp_bytes, TIMESTAMP_SIZE), TIMESTAMP_SIZE)

\* ------------------------------------------------------------------------
\* LoRaPacket.calculate_crc16
\* ------------------------------------------------------------------------
RECURSIVE CrcRounds(_, _)
\* for _ in range(8): shift right, XOR the mask when the low bit was set
CrcRounds(crc, n) ==
    IF n = 0 THEN crc
    ELSE IF crc % 2 = 1 THEN CrcRounds(BitXor(crc \div 2, CRC_POLY), n - 1)
    ELSE CrcRounds(crc \div 2, n - 1)

\* crc ^= byte, then the eight rounds
CrcByte(crc, byte) == CrcRounds(BitXor(crc, byte), 8)

RECURSIVE CrcRange(_, _, _, _)
\* for byte in data: the register after the bytes data[lo..hi] were fed, in
\* order, into the register crc (the range is halved so that the evaluation
\* stays shallow; the bytes are still processed first to last).
CrcRange(data, lo, hi, crc) ==
    IF lo > hi THEN crc
    ELSE IF lo = hi THEN CrcByte(crc, data[lo])
    ELSE LET mid == (lo + hi) \div 2
             left == CrcRange(data, lo, mid, crc)
         IN  IF left >= 0 THEN CrcRange(data, mid + 1, hi, left) ELSE left

\* The register started at 0 instead of 0xFFFF
calculate_crc16_ZeroInit(data) == CrcRange(data, 1, Len(data), 0)

calculate_crc16(data) == CrcRange(data, 1, Len(data), CRC_INIT)

\* ------------------------------------------------------------------------
\* LoRaPacket.create_packet
\* ------------------------------------------------------------------------
\* The cut made one byte early
FitField_CutEarly(text, size) == Ljust(Prefix(Utf8Encode(text), size - 1), size)

\* payload_str.encode('utf-8')[:PAYLOAD_SIZE].ljust(PAYLOAD_SIZE, b'\x00')
FitField(text, size) == Ljust(Prefix(Utf8Encode(text), size), size)

create_packet(device_id, packet_type, priority, payload_str, timestamp_str) ==
    LET payload_bytes == FitField(payload_str, PAYLOAD_SIZE)
        timestamp_bytes == FitField(timestamp_str, TIMESTAMP_SIZE)
        packet_without_crc ==
            PackHeader(device_id, packet_type, priority,
                       payload_bytes, timestamp_bytes)
        crc == calculate_crc16(packet_without_crc)
    IN  packet_without_crc \o PackU16(crc)

\* ------------------------------------------------------------------------
\* LoRaPacket.parse_packet
\* ------------------------------------------------------------------------
None == <<>>
Some(r) == <<r>>

\* The table without its KEEPALIVE entry
TypeName_NoKeepalive(pkt_type) ==
    IF pkt_type = TYPE_GPS THEN "GPS"
    ELSE IF pkt_type = TYPE_SOS THEN "SOS"
    ELSE "Unknown"

\* type_names.get(pkt_type, 'Unknown')
TypeName(pkt_type) ==
    IF pkt_type = TYPE_GPS THEN "GPS"
    ELSE IF pkt_type = TYPE_SOS THEN "SOS"
    ELSE IF pkt_type = TYPE_KEEPALIVE THEN "KEEPALIVE"
    ELSE "Unknown"

\* The value stored under 'crc_valid': the literal True, whatever the
\* comparison of the two checksums gave.
CrcValidField(calculated_crc, received_crc) == TRUE

\* Only frames that are too short refused
InvalidSize_ShortOnly(payload) == Len(payload) < PACKET_SIZE

\* `if len(payload) != self.PACKET_SIZE:`
InvalidSize(payload) == Len(payload) # PACKET_SIZE

parse_packet(payload) ==
    IF InvalidSize(payload) THEN None
    ELSE LET device_id == UnpackU16(payload, 1)
             pkt_type == payload[3]
             priority == payload[4]
             pkt_payload == SubSeq(payload, 5, 4 + PAYLOAD_SIZE)
             pkt_timestamp ==
                 SubSeq(payload, 5 + PAYLOAD_SIZE,
                        4 + PAYLOAD_SIZE + TIMESTAMP_SIZE)
             received_crc == UnpackU16(payload, PACKET_SIZE - 1)
             calculated_crc ==
                 calculate_crc16(Prefix(payload, CRC_OFFSET))
         IN  Some([device_id |-> device_id,
                   type |-> pkt_type,
                   type_name |-> TypeName(pkt_type),
                   priority |-> priority,
                   payload |-> RstripNul(Utf8DecodeIgnore(pkt_payload)),
                   timestamp |-> RstripNul(Utf8DecodeIgnore(pkt_timestamp)),
                   crc |-> received_crc,
                   crc_valid |-> CrcValidField(calculated_crc, received_crc)])

\* ------------------------------------------------------------------------
\* LoRaPacket.get_timestamp
\* ------------------------------------------------------------------------
\* %d, %m, %H, %M, %S: two digits, zero-padded
TwoDigits(n) == <<48 + (n \div 10), 48 + (n % 10)>>
\* %Y: four digits
FourDigits(n) ==
    <<48 + (n \div 1000), 48 + ((n \div 100) % 10),
      48 + ((n \div 10) % 10), 48 + (n % 10)>>

\* time.strftime('%d-%m-%Y %H:%M:%S', current_time)
get_timestamp(now) ==
    TwoDigits(now.day) \o <<45>> \o TwoDigits(now.month) \o <<45>>
        \o FourDigits(now.year) \o <<32>> \o TwoDigits(now.hour) \o <<58>>
        \o TwoDigits(now.minute) \o <<58>> \o TwoDigits(now.second)

\* ------------------------------------------------------------------------
\* LoRaPacket._parse_gps_payload
\* ------------------------------------------------------------------------
IsDigit(c) == c >= 48 /\ c <= 57

\* The positions of the commas of s, and the k-th of them (0 before the
\* text, Len(s) + 1 after it).
CommaSet(s) == {i \in 1..Len(s) : s[i] = 44}
CommaAt(s, k) ==
    IF k = 0 THEN 0
    ELSE IF k > Cardinality(CommaSet(s)) THEN Len(s) + 1
    ELSE CHOOSE i \in CommaSet(s) :
             Cardinality({j \in CommaSet(s) : j < i}) = k - 1

\* payload_str.split(',')[k - 1]
SplitPart(s, k) == SubSeq(s, CommaAt(s, k - 1) + 1, CommaAt(s, k) - 1)
\* len(payload_str.split(','))
SplitCount(s) == Cardinality(CommaSet(s)) + 1

\* float(text) accepts: an optional sign, digits with at most one point and
\* at least one digit (exponents, inf, nan, underscores and surrounding
\* whitespace, which float() also accepts, are not among the inputs).
FloatOk(text) ==
    LET body == IF Len(text) > 0 /\ text[1] \in {43, 45}
                THEN SubSeq(text, 2, Len(text)) ELSE text
        points == {i \in 1..Len(body) : body[i] = 46}
    IN  /\ \A i \in 1..Len(body) : IsDigit(body[i]) \/ body[i] = 46
        /\ Cardinality(points) <= 1
        /\ \E i \in 1..Len(body) : IsDigit(body[i])

RECURSIVE DigitsValue(_, _)
\* The number written by the digits of body[1..n], its point skipped.
DigitsValue(body, n) ==
    IF n = 0 THEN 0
    ELSE IF body[n] = 46 THEN DigitsValue(body, n - 1)
    ELSE 10 * DigitsValue(body, n - 1) + (body[n] - 48)

RECURSIVE Normal(_, _)
\* num / 10^scale with no trailing zero decimal
Normal(num, scale) ==
    IF scale > 0 /\ num % 10 = 0 THEN Normal(num \div 10, scale - 1)
    ELSE <<num, scale>>

\* float(text) for text FloatOk accepts: <<n, k>> stands for n / 10^k.
FloatValue(text) ==
    LET neg == Len(text) > 0 /\ text[1] = 45
        body == IF Len(text) > 0 /\ text[1] \in {43, 45}
                THEN SubSeq(text, 2, Len(text)) ELSE text
        points == {i \in 1..Len(body) : body[i] = 46}
        scale == IF points = {} THEN 0
                 ELSE Len(body) - (CHOOSE i \in points : TRUE)
        mag == Normal(DigitsValue(body, Len(body)), scale)
    IN  <<IF neg THEN 0 - mag[1] ELSE mag[1], mag[2]>>

\* 0.0
FloatZero == <<0, 0>>

\* A third part that is not a number leaves only the altitude unset
_parse_gps_payload_PartlySet(payload_str) ==
    IF Len(payload_str) > 0 /\ CommaSet(payload_str) # {} THEN
        LET p1 == SplitPart(payload_str, 1)
            p2 == SplitPart(payload_str, 2)
            p3 == SplitPart(payload_str, 3)
            three == SplitCount(payload_str) >= 3
        IN  IF FloatOk(p1) /\ FloatOk(p2) THEN
                <<Some(FloatValue(p1)), Some(FloatValue(p2)),
                  IF ~three THEN Some(FloatZero)
                  ELSE IF FloatOk(p3) THEN Some(FloatValue(p3)) ELSE None>>
            ELSE <<None, None, None>>
    ELSE <<None, None, None>>

\* (latitude, longitude, altitude), each None or a float
_parse_gps_payload(payload_str) ==
    IF Len(payload_str) > 0 /\ CommaSet(payload_str) # {} THEN
        LET p1 == SplitPart(payload_str, 1)
            p2 == SplitPart(payload_str, 2)
            p3 == SplitPart(payload_str, 3)
            three == SplitCount(payload_str) >= 3
        IN  IF FloatOk(p1) /\ FloatOk(p2) /\ (three => FloatOk(p3)) THEN
                <<Some(FloatValue(p1)), Some(FloatValue(p2)),
                  Some(IF three THEN FloatValue(p3) ELSE FloatZero)>>
            ELSE <<None, None, None>>
    ELSE <<None, None, None>>

\* ------------------------------------------------------------------------
\* LoRaPacket._indicate_packet_received and the decode-failure indicator:
\* <<led, on time, off time, repeats, background>>, times in hundredths of
\* a second
\* ------------------------------------------------------------------------
_indicate_packet_received(packet_type) ==
    IF packet_type = TYPE_SOS THEN <<"sos_led", 30, 30, 3, TRUE>>
    ELSE IF packet_type = TYPE_GPS THEN <<"rx_led", 30, 30, 3, TRUE>>
    ELSE IF packet_type = TYPE_KEEPALIVE THEN <<"rx_led", 20, 20, 2, TRUE>>
    ELSE <<"rx_led", 50, 50, 1, TRUE>>

\* The decode-failure indicator given the timing of the KEEPALIVE one
FailureBlink_AsKeepalive == <<"rx_led", 20, 20, 2, TRUE>>

\* self.rx_led.blink(on_time=0.05, off_time=0.05, n=3, background=True)
FailureBlink == <<"rx_led", 5, 5, 3, TRUE>>

\* ------------------------------------------------------------------------
\* InfluxDBManager.insert_into_influxdb
\* ------------------------------------------------------------------------
\* datetime.strptime(timestamp, '%d-%m-%Y %H:%M:%S') accepts the text (the
\* modelled texts write every field with all its digits).
StrptimeOk(ts) ==
    /\ Len(ts) = 19
    /\ \A i \in {3, 6} : ts[i] = 45
    /\ ts[11] = 32
    /\ \A i \in {14, 17} : ts[i] = 58
    /\ \A i \in (1..19) \ {3, 6, 11, 14, 17} : IsDigit(ts[i])
    /\ LET num(i) == 10 * (ts[i] - 48) + (ts[i + 1] - 48)
       IN  /\ num(1) >= 1 /\ num(1) <= 31
           /\ num(4) >= 1 /\ num(4) <= 12
           /\ num(12) <= 23 /\ num(15) <= 59 /\ num(18) <= 61

\* `if timestamp and isinstance(timestamp, str)`: a non-empty text is
\* parsed, outside the try block, so a text strptime rejects raises.
InsertRaisesOnTimestamp(ts) == Len(ts) > 0 /\ ~StrptimeOk(ts)

\* The point built from tags and fields.
SinkPoint(packet_info, gps) ==
    [device_id |-> packet_info.device_id,
     priority |-> packet_info.priority,
     latitude |-> gps[1],
     longitude |-> gps[2],
     altitude |-> gps[3],
     sos_signal |-> (packet_info.type = TYPE_SOS),
     timestamp |-> packet_info.timestamp]

\* ------------------------------------------------------------------------
\* Inputs of the codec
\* ------------------------------------------------------------------------
\* n times the code point cp
Rep(cp, n) == [i \in 1..n |-> cp]

\* "12.9,77.5"
TextGps == <<49, 50, 46, 57, 44, 55, 55, 46, 53>>
\* "DUMMY DATA"
TextDummy == <<68, 85, 77, 77, 89, 32, 68, 65, 84, 65>>
\* "01-01-2024 10:00:00"
TextStamp ==
    <<48, 49, 45, 48, 49, 45, 50, 48, 50, 52, 32, 49, 48, 58, 48, 48, 58, 48, 48>>
\* "123456789"
TextCheck == <<49, 50, 51, 52, 53, 54, 55, 56, 57>>

\* Texts whose encoding is around `size` bytes long: ASCII text (one byte a
\* character), text of two-byte characters (U+00E9), and text whose cut at
\* `size` bytes falls inside a character.
TextsNear(size) ==
    {Rep(65, n) : n \in (size - MaxOver)..(size + MaxOver)}
        \cup {Rep(233, n) : n \in ((size \div 2) - 1)..((size \div 2) + 1)}
        \cup {<<65>> \o Rep(233, size \div 2), <<8364>> \o Rep(66, size - 3)}

\* Short texts: empty, ASCII, NUL inside, NUL at the end, characters of
\* two, three and four bytes.
ShortTexts ==
    {<<>>, <<65, 0, 66>>, <<65, 0>>, <<233>>, <<8364, 66>>, <<128512>>}

PayloadInputs == ShortTexts \cup {TextGps, TextDummy} \cup TextsNear(PAYLOAD_SIZE)
TimestampInputs == {<<>>, <<65, 0>>, <<233>>, TextStamp} \cup TextsNear(TIMESTAMP_SIZE)
DeviceIdInputs == {0, 255, 10010, 65535}
TypeInputs == {0, TYPE_GPS, TYPE_SOS, TYPE_KEEPALIVE, 4, 255}
PriorityInputs == {0, 2, 255}
\* every value the type byte can hold
TypeByteInputs == 0..255

BaseArgs ==
    [device_id |-> 10010, packet_type |-> TYPE_GPS, priority |-> 2,
     payload_str |-> TextGps, timestamp_str |-> TextStamp]

\* The argument tuples given to create_packet: every payload, every
\* timestamp and every (device_id, type, priority) with the other arguments
\* of BaseArgs, every type byte, and the longest payload with the longest
\* timestamp.
ArgInputs ==
    {[BaseArgs EXCEPT !.payload_str = pl] : pl \in PayloadInputs}
        \cup {[BaseArgs EXCEPT !.timestamp_str = ts] : ts \in TimestampInputs}
        \cup {[BaseArgs EXCEPT !.device_id = d, !.packet_type = t, !.priority = p] :
                 d \in DeviceIdInputs, t \in TypeInputs, p \in PriorityInputs}
        \cup {[BaseArgs EXCEPT !.packet_type = t] : t \in TypeByteInputs}
        \cup {[BaseArgs EXCEPT !.payload_str = Rep(65, PAYLOAD_SIZE + MaxOver),
                               !.timestamp_str = Rep(65, TIMESTAMP_SIZE + MaxOver)]}

\* Texts given to _parse_gps_payload on its own, each with the coordinates
\* written in it (<<n, k>> stands for n / 10^k): "lat,lon", "lat,lon,alt",
\* signs, a missing integer or fraction part, a fourth part.
GpsWellFormed ==
    {
     \* "12.34,56.78"
     [text |-> <<49, 50, 46, 51, 52, 44, 53, 54, 46, 55, 56>>,
      expect |-> <<Some(<<1234, 2>>), Some(<<5678, 2>>), Some(<<0, 0>>)>>],
     \* "12.34,56.78,100.5"
     [text |-> <<49, 50, 46, 51, 52, 44, 53, 54, 46, 55, 56, 44, 49, 48, 48, 46, 53>>,
      expect |-> <<Some(<<1234, 2>>), Some(<<5678, 2>>), Some(<<1005, 1>>)>>],
     \* "-1.5,+2"
     [text |-> <<45, 49, 46, 53, 44, 43, 50>>,
      expect |-> <<Some(<<-15, 1>>), Some(<<2, 0>>), Some(<<0, 0>>)>>],
     \* "0,0"
     [text |-> <<48, 44, 48>>,
      expect |-> <<Some(<<0, 0>>), Some(<<0, 0>>), Some(<<0, 0>>)>>],
     \* "1.50,.5,7."
     [text |-> <<49, 46, 53, 48, 44, 46, 53, 44, 55, 46>>,
      expect |-> <<Some(<<15, 1>>), Some(<<5, 1>>), Some(<<7, 0>>)>>],
     \* "1,2,3,x"
     [text |-> <<49, 44, 50, 44, 51, 44, 120>>,
      expect |-> <<Some(<<1, 0>>), Some(<<2, 0>>), Some(<<3, 0>>)>>]
    }

\* Texts that hold no coordinates: empty, no comma, a part that is not a
\* number, an empty part, two points in a part, a point or a sign alone.
GpsMalformed ==
    {
     <<>>,   \* ""
     <<49, 50, 46, 51, 52>>,   \* "12.34"
     <<68, 85, 77, 77, 89, 32, 68, 65, 84, 65>>,   \* "DUMMY DATA"
     <<97, 98, 99, 44, 49>>,   \* "abc,1"
     <<49, 44, 97, 98, 99>>,   \* "1,abc"
     <<49, 44, 50, 44, 97, 98, 99>>,   \* "1,2,abc"
     <<49, 44, 50, 44>>,   \* "1,2,"
     <<44>>,   \* ","
     <<49, 44>>,   \* "1,"
     <<49, 46, 50, 46, 51, 44, 52>>,   \* "1.2.3,4"
     <<46, 44, 49>>,   \* ".,1"
     <<45, 44, 49>>,   \* "-,1"
     <<49, 44, 50, 44, 51, 46, 52, 46, 53>>   \* "1,2,3.4.5"
    }

GpsInputs == {c.text : c \in GpsWellFormed} \cup GpsMalformed

\* Byte strings given to calculate_crc16 on its own.
CrcInputs ==
    {<<>>, <<0>>, <<255>>, <<1, 2>>, TextCheck, Utf8Encode(TextDummy),
     Rep(255, PAYLOAD_SIZE)}

\* What a noisy link does to a frame: one byte replaced.
CorruptAt(frame, i, b) == [frame EXCEPT ![i] = b]

\* ------------------------------------------------------------------------
\* Inputs of the running program
\* ------------------------------------------------------------------------
\* main.py: DEVICE_ID
DEVICE_ID == 10010

\* Local times time.localtime() may return.
ClockInputs ==
    {[day |-> 1, month |-> 1, year |-> 2024, hour |-> 10, minute |-> 0, second |-> 0],
     [day |-> 31, month |-> 12, year |-> 2025, hour |-> 23, minute |-> 59, second |-> 59]}

\* "not a time"
TextBadStamp == <<110, 111, 116, 32, 97, 32, 116, 105, 109, 101>>

\* Frames read_payload may return: a GPS frame, an SOS frame with
\* "lat,lon,alt", a KEEPALIVE frame whose timestamp strptime rejects, and a
\* GPS frame cut short.
RxFrames ==
    {create_packet(7, TYPE_GPS, 0, TextGps, TextStamp),
     create_packet(8, TYPE_SOS, 1, TextGps \o <<44, 49, 48, 48, 46, 53>>, TextStamp),
     create_packet(9, TYPE_KEEPALIVE, 0, TextDummy, TextBadStamp),
     SubSeq(create_packet(7, TYPE_GPS, 0, TextGps, TextStamp), 1, 10)}

\* What parse_packet returns for these frames, and the packets the
\* transmitter builds at these local times, computed once.
RxParsed == {parse_packet(payload) : payload \in RxFrames}
TxPackets ==
    {create_packet(DEVICE_ID, 1, 2, TextDummy, get_timestamp(now)) :
        now \in ClockInputs}

\* ------------------------------------------------------------------------
\* State
\* ------------------------------------------------------------------------
VARIABLES
    cstep,      \* codec: which call was made last
    args,       \* codec: the arguments of the last create_packet call
    frame,      \* codec: the bytes on the wire (parse_packet's argument)
    parsed,     \* codec: what parse_packet returned
    crcData,    \* codec: the argument of the last calculate_crc16 call
    crcOut,     \* codec: its result
    gpsText,    \* codec: the argument of the last _parse_gps_payload call
    gpsOut,     \* codec: its result
    enable_periodic_send,   \* main.py: ENABLE_PERIODIC_SEND
    mpc,        \* main program: where it is
    stop_event, \* threading.Event: set or not
    boardUp,    \* BOARD.setup() done and BOARD.teardown() not yet
    configured, \* the radio parameters were written
    mode,       \* the radio mode last commanded (LoRa.mode)
    fifo,       \* the frame last written with write_payload
    txPending,  \* Tx was commanded, its TxDone not yet delivered
    packet_count,   \* LoRaPacket.packet_count
    tpc,        \* periodic_send_thread: where it is
    tCount,     \* periodic_send_thread: its local packet_count
    tPacket,    \* periodic_send_thread: its local packet, while it is sent
    tTick,      \* periodic_send_thread: the wait loop's index
    tLastMode,  \* the radio mode periodic_send_thread commanded last in its cycle
    cpc,        \* the driver's callback thread: where it is
    packet_info,    \* on_rx_done: its local packet_info
    rxCmds,     \* the radio commands of the running (or last) on_rx_done
    rxOutcome,  \* what the running (or last) on_rx_done met
    blinks,     \* the indicator calls of the running (or last) on_rx_done
    sinkPending,    \* the point whose write has not returned yet
    sinkErrors,     \* how many times on_rx_done printed "InfluxDB error"
    sinkWrites  \* the points written to the sink, in order

gpsVars == <<gpsText, gpsOut>>
codecVars == <<cstep, args, frame, parsed, crcData, crcOut, gpsVars>>
mainVars == <<enable_periodic_send, mpc, stop_event, boardUp, configured>>
radioVars == <<mode, fifo, txPending>>
threadVars == <<tpc, tCount, tPacket, tTick, tLastMode>>
rxVars ==
    <<packet_count, packet_info, rxCmds, rxOutcome, blinks, sinkPending, sinkErrors,
      sinkWrites>>
progVars == <<mainVars, radioVars, threadVars, cpc, rxVars>>
vars == <<codecVars, progVars>>

NoArgs ==
    [device_id |-> 0, packet_type |-> 0, priority |-> 0,
     payload_str |-> <<>>, timestamp_str |-> <<>>]

CodecInit ==
    /\ cstep = "start"
    /\ args = NoArgs
    /\ frame = <<>>
    /\ parsed = None
    /\ crcData = <<>>
    /\ crcOut = 0
    /\ gpsText = <<>>
    /\ gpsOut = <<None, None, None>>

\* The state after `lora = LoRaPacket(...)`: __init__ sets packet_count to 0
\* and commands Sleep.
ProgInit ==
    /\ mpc = "m_configure"
    /\ stop_event = FALSE
    /\ boardUp = TRUE
    /\ configured = FALSE
    /\ mode = "SLEEP"
    /\ fifo = <<>>
    /\ txPending = FALSE
    /\ packet_count = 0
    /\ tpc = "t_unstarted"
    /\ tCount = 0
    /\ tPacket = <<>>
    /\ tTick = 0
    /\ tLastMode = "none"
    /\ cpc = "idle"
    /\ packet_info = None
    /\ rxCmds = <<>>
    /\ rxOutcome = "none"
    /\ blinks = <<>>
    /\ sinkPending = None
    /\ sinkErrors = 0
    /\ sinkWrites = <<>>

\* ------------------------------------------------------------------------
\* Codec calls
\* ------------------------------------------------------------------------
CallCreatePacket ==
    /\ cstep = "start"
    /\ \E a \in ArgInputs :
          /\ args' = a
          /\ frame' = create_packet(a.device_id, a.packet_type, a.priority,
                                    a.payload_str, a.timestamp_str)
    /\ cstep' = "created"
    /\ UNCHANGED <<parsed, crcData, crcOut, gpsVars, progVars>>

\* The link replaces one byte of the frame in flight.
LinkCorrupt ==
    /\ cstep = "created"
    /\ \E i \in {1, 3, 5, PACKET_SIZE - 1, PACKET_SIZE}, b \in {0, 255} :
          /\ frame[i] # b
          /\ frame' = CorruptAt(frame, i, b)
    /\ cstep' = "corrupted"
    /\ UNCHANGED <<args, parsed, crcData, crcOut, gpsVars, progVars>>

\* The link delivers a frame of the wrong length.
LinkResize ==
    /\ cstep = "created"
    /\ \E n \in {0, 1, PACKET_SIZE - 1, PACKET_SIZE + 1} :
          frame' = IF n <= Len(frame) THEN SubSeq(frame, 1, n)
                   ELSE frame \o Rep(0, n - Len(frame))
    /\ cstep' = "resized"
    /\ UNCHANGED <<args, parsed, crcData, crcOut, gpsVars, progVars>>

CallParsePacket ==
    /\ cstep \in {"created", "corrupted", "resized"}
    /\ parsed' = parse_packet(frame)
    /\ cstep' = "parsed_" \o cstep
    /\ UNCHANGED <<args, frame, crcData, crcOut, gpsVars, progVars>>

CallCrc16 ==
    /\ cstep = "start"
    /\ \E data \in CrcInputs :
          /\ crcData' = data
          /\ crcOut' = calculate_crc16(data)
    /\ cstep' = "crc"
    /\ UNCHANGED <<args, frame, parsed, gpsVars, progVars>>

CallParseGps ==
    /\ cstep = "start"
    /\ \E payload_str \in GpsInputs :
          /\ gpsText' = payload_str
          /\ gpsOut' = _parse_gps_payload(payload_str)
    /\ cstep' = "gps"
    /\ UNCHANGED <<args, frame, parsed, crcData, crcOut, progVars>>

CodecNext ==
    \/ CallCreatePacket
    \/ LinkCorrupt
    \/ LinkResize
    \/ CallParsePacket
    \/ CallCrc16
    \/ CallParseGps

\* The codec on its own: the program does not run.
InitCodec == CodecInit /\ ProgInit /\ enable_periodic_send = FALSE

SpecCodec == InitCodec /\ [][CodecNext]_vars

\* ------------------------------------------------------------------------
\* The radio driver's primitives (SX127x.LoRa, called through LoRaPacket)
\* ------------------------------------------------------------------------
Modes == {"SLEEP", "STDBY", "TX", "RXCONT"}

\* Nothing runs once the main program has left: the transmitter is a daemon
\* thread and the driver's callbacks die with the process.
Running == mpc # "m_exit"

\* ------------------------------------------------------------------------
\* The main program (main.py, __main__)
\* ------------------------------------------------------------------------
\* configure_for_pvm: set_mode(SLEEP), then the parameter writes
MConfigure ==
    /\ mpc = "m_configure"
    /\ mode' = "SLEEP"
    /\ mpc' = "m_params"
    /\ UNCHANGED <<codecVars, enable_periodic_send, stop_event, boardUp, configured,
                   fifo, txPending, threadVars, cpc, rxVars>>

MParams ==
    /\ mpc = "m_params"
    /\ configured' = TRUE
    /\ mpc' = "m_listen"
    /\ UNCHANGED <<codecVars, enable_periodic_send, stop_event, boardUp,
                   radioVars, threadVars, cpc, rxVars>>

\* start_listening called first, ahead of configure_for_pvm
MStartListening_BeforeConfigure ==
    /\ mpc = "m_configure"
    /\ mode' = "RXCONT"
    /\ mpc' = "m_params"
    /\ UNCHANGED <<codecVars, enable_periodic_send, stop_event, boardUp, configured,
                   fifo, txPending, threadVars, cpc, rxVars>>

\* start_listening: set_mode(RXCONT)
MStartListening ==
    /\ mpc = "m_listen"
    /\ mode' = "RXCONT"
    /\ mpc' = "m_spawn"
    /\ UNCHANGED <<codecVars, enable_periodic_send, stop_event, boardUp, configured,
                   fifo, txPending, threadVars, cpc, rxVars>>

\* `if ENABLE_PERIODIC_SEND:` send_thread.start()
MSpawn ==
    /\ mpc = "m_spawn"
    /\ tpc' = IF enable_periodic_send THEN "t_check" ELSE tpc
    /\ mpc' = "m_loop"
    /\ UNCHANGED <<codecVars, enable_periodic_send, stop_event, boardUp, configured,
                   radioVars, tCount, tPacket, tTick, tLastMode, cpc, rxVars>>

\* The status loop: once a minute it reads lora.packet_count and prints
\* it; it writes nothing.
MStatus ==
    /\ mpc = "m_loop"
    /\ packet_count \in Nat
    /\ UNCHANGED vars

\* KeyboardInterrupt in the status loop: the except block prints the total
\* and, `if ENABLE_PERIODIC_SEND and send_thread:`, sets the stop signal.
MInterrupt ==
    /\ mpc = "m_loop"
    /\ stop_event' = (IF enable_periodic_send THEN TRUE ELSE stop_event)
    /\ mpc' = IF enable_periodic_send THEN "m_join" ELSE "m_final_sleep"
    /\ UNCHANGED <<codecVars, enable_periodic_send, boardUp, configured,
                   radioVars, threadVars, cpc, rxVars>>

\* send_thread.join(timeout=2) returns because the thread has ended.
MJoinEnded ==
    /\ mpc = "m_join"
    /\ tpc = "t_done"
    /\ mpc' = "m_final_sleep"
    /\ UNCHANGED <<codecVars, enable_periodic_send, stop_event, boardUp, configured,
                   radioVars, threadVars, cpc, rxVars>>

\* send_thread.join(timeout=2) returns because the two seconds are over;
\* nothing bounds how long the steps of the thread take.
MJoinTimeout ==
    /\ mpc = "m_join"
    /\ tpc # "t_done"
    /\ mpc' = "m_final_sleep"
    /\ UNCHANGED <<codecVars, enable_periodic_send, stop_event, boardUp, configured,
                   radioVars, threadVars, cpc, rxVars>>

\* finally: lora.set_mode(MODE.SLEEP)
MFinalSleep ==
    /\ mpc = "m_final_sleep"
    /\ mode' = "SLEEP"
    /\ mpc' = "m_teardown"
    /\ UNCHANGED <<codecVars, enable_periodic_send, stop_event, boardUp, configured,
                   fifo, txPending, threadVars, cpc, rxVars>>

\* finally: BOARD.teardown()
MTeardown ==
    /\ mpc = "m_teardown"
    /\ boardUp' = FALSE
    /\ mpc' = "m_close"
    /\ UNCHANGED <<codecVars, enable_periodic_send, stop_event, configured,
                   radioVars, threadVars, cpc, rxVars>>

\* finally: the LEDs and the sink are closed and the process ends.
MClose ==
    /\ mpc = "m_close"
    /\ mpc' = "m_exit"
    /\ UNCHANGED <<codecVars, enable_periodic_send, stop_event, boardUp, configured,
                   radioVars, threadVars, cpc, rxVars>>

\* ------------------------------------------------------------------------
\* periodic_send_thread (main.py)
\* ------------------------------------------------------------------------
\* `while not (stop_event and stop_event.is_set()):`
TCheck ==
    /\ Running
    /\ tpc = "t_check"
    /\ stop_event \/ tCount < MaxCycles
    /\ tpc' = IF stop_event THEN "t_done" ELSE "t_build"
    /\ UNCHANGED <<codecVars, mainVars, radioVars, tCount, tPacket, tTick, tLastMode,
                   cpc, rxVars>>

\* The thread's `packet_count += 1` done on lora.packet_count
TBuild_CountsOnRadio ==
    /\ Running
    /\ tpc = "t_build"
    /\ \E packet \in TxPackets : tPacket' = packet
    /\ tCount' = tCount + 1
    /\ packet_count' = packet_count + 1
    /\ tpc' = "t_stdby"
    /\ UNCHANGED <<codecVars, mainVars, radioVars, tTick, tLastMode, cpc, packet_info,
                   rxCmds, rxOutcome, blinks, sinkPending, sinkErrors, sinkWrites>>

\* get_timestamp, create_packet(device_id, 1, 2, "DUMMY DATA", timestamp),
\* packet_count += 1, print
TBuild ==
    /\ Running
    /\ tpc = "t_build"
    /\ \E packet \in TxPackets : tPacket' = packet
    /\ tCount' = tCount + 1
    /\ tpc' = "t_stdby"
    /\ UNCHANGED <<codecVars, mainVars, radioVars, tTick, tLastMode, cpc, rxVars>>

\* send_packet: self.set_mode(MODE.STDBY)
TStandby ==
    /\ Running
    /\ tpc = "t_stdby"
    /\ mode' = "STDBY"
    /\ tLastMode' = "STDBY"
    /\ tpc' = "t_write"
    /\ UNCHANGED <<codecVars, mainVars, fifo, txPending, tCount, tPacket, tTick, cpc, rxVars>>

\* send_packet: self.write_payload(list(packet_bytes))
TWrite ==
    /\ Running
    /\ tpc = "t_write"
    /\ fifo' = tPacket
    /\ tpc' = "t_tx"
    /\ UNCHANGED <<codecVars, mainVars, mode, txPending, tCount, tPacket, tTick,
                   tLastMode, cpc, rxVars>>

\* send_packet: self.set_mode(MODE.TX)
TTx ==
    /\ Running
    /\ tpc = "t_tx"
    /\ mode' = "TX"
    /\ tLastMode' = "TX"
    /\ txPending' = TRUE
    /\ tPacket' = <<>>
    /\ tpc' = "t_settle"
    /\ UNCHANGED <<codecVars, mainVars, fifo, tCount, tTick, cpc, rxVars>>

\* A driver call of send_packet raises (the `except Exception` of the
\* thread prints it): the rest of the cycle is skipped.
TSendRaise ==
    /\ Running
    /\ tpc \in {"t_stdby", "t_write", "t_tx"}
    /\ tPacket' = <<>>
    /\ tTick' = 0
    /\ tpc' = "t_wait"
    /\ UNCHANGED <<codecVars, mainVars, radioVars, tCount, tLastMode, cpc, rxVars>>

\* time.sleep(0.5)
TSettle ==
    /\ Running
    /\ tpc = "t_settle"
    /\ tpc' = "t_sleep"
    /\ UNCHANGED <<codecVars, mainVars, radioVars, tCount, tPacket, tTick, tLastMode,
                   cpc, rxVars>>

\* lora.set_mode(MODE.SLEEP)
TSleep ==
    /\ Running
    /\ tpc = "t_sleep"
    /\ mode' = "SLEEP"
    /\ tLastMode' = "SLEEP"
    /\ tpc' = "t_reset"
    /\ UNCHANGED <<codecVars, mainVars, fifo, txPending, tCount, tPacket, tTick, cpc, rxVars>>

\* lora.reset_ptr_rx()
TReset ==
    /\ Running
    /\ tpc = "t_reset"
    /\ tpc' = "t_rxcont"
    /\ UNCHANGED <<codecVars, mainVars, radioVars, tCount, tPacket, tTick, tLastMode,
                   cpc, rxVars>>

\* lora.set_mode(MODE.RXCONT)
TRxCont ==
    /\ Running
    /\ tpc = "t_rxcont"
    /\ mode' = "RXCONT"
    /\ tLastMode' = "RXCONT"
    /\ tTick' = 0
    /\ tpc' = "t_wait"
    /\ UNCHANGED <<codecVars, mainVars, fifo, txPending, tCount, tPacket, cpc, rxVars>>

\* The wait loop going on whatever the stop signal says
WaitGoesOn_IgnoresStop(tick, stop) == tick < Interval

\* `for _ in range(interval):` runs its body again, and
\* `if stop_event and stop_event.is_set(): break` does not leave it.
WaitGoesOn(tick, stop) == tick < Interval /\ ~stop

\* The head of the wait loop: on to time.sleep(1), or out of the loop and
\* back to the `while` (the cycle is over, its commands are forgotten).
TWait ==
    /\ Running
    /\ tpc = "t_wait"
    /\ IF WaitGoesOn(tTick, stop_event)
       THEN tpc' = "t_tick" /\ tLastMode' = tLastMode
       ELSE tpc' = "t_check" /\ tLastMode' = "none"
    /\ UNCHANGED <<codecVars, mainVars, radioVars, tCount, tPacket, tTick, cpc, rxVars>>

\* time.sleep(1) returns.
TTick ==
    /\ Running
    /\ tpc = "t_tick"
    /\ tTick' = tTick + 1
    /\ tpc' = "t_wait"
    /\ UNCHANGED <<codecVars, mainVars, radioVars, tCount, tPacket, tLastMode, cpc, rxVars>>

\* ------------------------------------------------------------------------
\* LoRaPacket.on_rx_done, run by the driver's callback thread
\* ------------------------------------------------------------------------
RxPcs == {"rx_parsed", "rx_sink", "rx_sleep", "rx_reset", "rx_rxcont", "rx_return"}

\* The error of the sink passed on to the caller of on_rx_done
AfterSinkRaise_Propagated == "idle"

\* The point kept for another attempt
KeptAfterRaise_Requeued(point) == point

\* What is left of the point when insert_into_influxdb raised: the
\* `except Exception` only prints the error, the point is dropped.
KeptAfterRaise(point) == None

\* Where on_rx_done goes on when insert_into_influxdb raised: its
\* `except Exception` prints the error and the handler runs on to the rearm.
AfterSinkRaise == "rx_sleep"

\* The driver reports a received frame while the radio listens:
\* packet_count += 1, clear_irq_flags, read_payload, get_pkt_rssi_value,
\* parse_packet.
RxEntry ==
    /\ Running /\ boardUp
    /\ cpc = "idle"
    /\ mode = "RXCONT"
    /\ packet_count < MaxRx
    /\ packet_count' = packet_count + 1
    /\ \E info \in RxParsed : packet_info' = info
    /\ rxCmds' = <<>>
    /\ blinks' = <<>>
    /\ rxOutcome' = "running"
    /\ cpc' = "rx_parsed"
    /\ UNCHANGED <<codecVars, mainVars, radioVars, threadVars, sinkPending, sinkErrors,
                   sinkWrites>>

\* `if packet_info:` print, indicate, _parse_gps_payload and the call of
\* insert_into_influxdb; `else:` the failure indicator.
RxDispatch ==
    /\ Running
    /\ cpc = "rx_parsed"
    /\ IF packet_info # None
       THEN LET info == packet_info[1]
            IN  /\ blinks' = Append(blinks, _indicate_packet_received(info.type))
                /\ sinkPending' =
                       Some(SinkPoint(info, _parse_gps_payload(info.payload)))
                /\ rxOutcome' = rxOutcome
                /\ cpc' = "rx_sink"
       ELSE /\ blinks' = Append(blinks, FailureBlink)
            /\ sinkPending' = sinkPending
            /\ rxOutcome' = "parse_failed"
            /\ cpc' = "rx_sleep"
    /\ UNCHANGED <<codecVars, mainVars, radioVars, threadVars, packet_count,
                   packet_info, rxCmds, sinkErrors, sinkWrites>>

\* insert_into_influxdb returns True: the point was written.
RxSinkDone ==
    /\ Running
    /\ cpc = "rx_sink"
    /\ ~InsertRaisesOnTimestamp(sinkPending[1].timestamp)
    /\ sinkWrites' = Append(sinkWrites, sinkPending[1])
    /\ sinkPending' = None
    /\ rxOutcome' = "decoded"
    /\ cpc' = "rx_sleep"
    /\ UNCHANGED <<codecVars, mainVars, radioVars, threadVars, packet_count,
                   packet_info, rxCmds, blinks, sinkErrors>>

\* insert_into_influxdb raises: strptime rejected the timestamp, or the
\* write failed and `raise e` passed the error on.
RxSinkRaise ==
    /\ Running
    /\ cpc = "rx_sink"
    /\ sinkPending' = KeptAfterRaise(sinkPending)
    /\ sinkErrors' = sinkErrors + 1
    /\ rxOutcome' = "sink_raised"
    /\ cpc' = AfterSinkRaise
    /\ UNCHANGED <<codecVars, mainVars, radioVars, threadVars, packet_count,
                   packet_info, rxCmds, blinks, sinkWrites>>

\* self.set_mode(MODE.SLEEP)
RxSleep ==
    /\ Running
    /\ cpc = "rx_sleep"
    /\ mode' = "SLEEP"
    /\ rxCmds' = Append(rxCmds, "SLEEP")
    /\ cpc' = "rx_reset"
    /\ UNCHANGED <<codecVars, mainVars, fifo, txPending, threadVars, packet_count,
                   packet_info, rxOutcome, blinks, sinkPending, sinkErrors, sinkWrites>>

\* self.reset_ptr_rx()
RxReset ==
    /\ Running
    /\ cpc = "rx_reset"
    /\ rxCmds' = Append(rxCmds, "RESET")
    /\ cpc' = "rx_rxcont"
    /\ UNCHANGED <<codecVars, mainVars, radioVars, threadVars, packet_count,
                   packet_info, rxOutcome, blinks, sinkPending, sinkErrors, sinkWrites>>

\* self.set_mode(MODE.RXCONT)
RxRxCont ==
    /\ Running
    /\ cpc = "rx_rxcont"
    /\ mode' = "RXCONT"
    /\ rxCmds' = Append(rxCmds, "RXCONT")
    /\ cpc' = "rx_return"
    /\ UNCHANGED <<codecVars, mainVars, fifo, txPending, threadVars, packet_count,
                   packet_info, rxOutcome, blinks, sinkPending, sinkErrors, sinkWrites>>

\* on_rx_done returns: its locals are gone, and with them the record of
\* what this invocation did.
RxReturn ==
    /\ Running
    /\ cpc = "rx_return"
    /\ packet_info' = None
    /\ rxCmds' = <<>>
    /\ rxOutcome' = "none"
    /\ blinks' = <<>>
    /\ cpc' = "idle"
    /\ UNCHANGED <<codecVars, mainVars, radioVars, threadVars, packet_count,
                   sinkPending, sinkErrors, sinkWrites>>

\* ------------------------------------------------------------------------
\* LoRaPacket.on_tx_done, run by the driver's callback thread
\* ------------------------------------------------------------------------
\* The driver reports the transmission complete: clear_irq_flags(TxDone=1)
TxDoneEntry ==
    /\ Running /\ boardUp
    /\ cpc = "idle"
    /\ txPending
    /\ txPending' = FALSE
    /\ cpc' = "txd_sleep"
    /\ UNCHANGED <<codecVars, mainVars, mode, fifo, threadVars, rxVars>>

\* self.set_mode(MODE.SLEEP)
TxDoneSleep ==
    /\ Running
    /\ cpc = "txd_sleep"
    /\ mode' = "SLEEP"
    /\ cpc' = "txd_reset"
    /\ UNCHANGED <<codecVars, mainVars, fifo, txPending, threadVars, rxVars>>

\* self.reset_ptr_rx()
TxDoneReset ==
    /\ Running
    /\ cpc = "txd_reset"
    /\ cpc' = "txd_rxcont"
    /\ UNCHANGED <<codecVars, mainVars, radioVars, threadVars, rxVars>>

\* self.set_mode(MODE.RXCONT), and the handler returns
TxDoneRxCont ==
    /\ Running
    /\ cpc = "txd_rxcont"
    /\ mode' = "RXCONT"
    /\ cpc' = "idle"
    /\ UNCHANGED <<codecVars, mainVars, fifo, txPending, threadVars, rxVars>>

\* ------------------------------------------------------------------------
\* The running program
\* ------------------------------------------------------------------------
Main ==
    \/ MConfigure \/ MParams \/ MStartListening \/ MSpawn \/ MStatus
    \/ MInterrupt \/ MJoinEnded \/ MJoinTimeout
    \/ MFinalSleep \/ MTeardown \/ MClose

Transmitter ==
    \/ TCheck \/ TBuild \/ TStandby \/ TWrite \/ TTx \/ TSendRaise
    \/ TSettle \/ TSleep \/ TReset \/ TRxCont \/ TWait \/ TTick

OnRxDone ==
    \/ RxEntry \/ RxDispatch \/ RxSinkDone \/ RxSinkRaise
    \/ RxSleep \/ RxReset \/ RxRxCont \/ RxReturn

OnTxDone == TxDoneEntry \/ TxDoneSleep \/ TxDoneReset \/ TxDoneRxCont

Next == Main \/ Transmitter \/ OnRxDone \/ OnTxDone

\* ENABLE_PERIODIC_SEND is a switch of main.py's configuration block: the
\* program is modelled with it off (as committed) and on.
Init == CodecInit /\ ProgInit /\ enable_periodic_send \in BOOLEAN

Spec == Init /\ [][Next]_vars

\* ------------------------------------------------------------------------
\* Properties
\* ------------------------------------------------------------------------
RearmSequence == <<"SLEEP", "RESET", "RXCONT">>

\* C1: every invocation of on_rx_done (packet decoded, decode failed, sink
\* write raised) has commanded Sleep, then the reset of the receive pointer,
\* then RxContinuous, in that order and nothing else, when it returns; an
\* invocation ends in no other way than through that return.
C1_RxDoneRearms ==
    /\ cpc = "rx_return" =>
          /\ rxCmds = RearmSequence
          /\ rxOutcome \in {"decoded", "parse_failed", "sink_raised"}
    /\ cpc \in RxPcs \ {"rx_return"} =>
          \E n \in 0..2 : rxCmds = SubSeq(RearmSequence, 1, n)
    /\ cpc \notin RxPcs => rxOutcome = "none"

\* An invocation whose sink write raised is about to return, rearmed.
C1_Witness ==
    /\ cpc = "rx_return"
    /\ rxOutcome = "sink_raised"
    /\ rxCmds = RearmSequence

\* on_rx_done between the first and the last command of its rearm sequence
RxMidRearm == cpc \in {"rx_reset", "rx_rxcont"}
\* the transmitter between the first and the last radio command of a cycle
TxMidCycle ==
    Running /\ tpc \in {"t_write", "t_tx", "t_settle", "t_sleep", "t_reset", "t_rxcont"}

\* C2: the receive handler and the periodic transmitter serialize their
\* access to the radio: neither is between the first and the last radio
\* command of its sequence while the other is between the first and the
\* last of its own (whichever moved next would put a command in between).
C2_Serialized == ~(RxMidRearm /\ TxMidCycle)

\* C3: a 126-byte frame whose stored checksum differs from the CRC-16
\* recomputed over bytes [0,124) parses to a packet whose crc_valid is false.
C3_MismatchFlagged ==
    (/\ cstep \in {"parsed_created", "parsed_corrupted"}
     /\ Len(frame) = PACKET_SIZE
     /\ UnpackU16(frame, PACKET_SIZE - 1) # calculate_crc16(Prefix(frame, CRC_OFFSET)))
        => (parsed # None /\ parsed[1].crc_valid = FALSE)

LegalTransitions ==
    {<<"SLEEP", "STDBY">>, <<"STDBY", "SLEEP">>, <<"STDBY", "TX">>,
     <<"TX", "SLEEP">>, <<"SLEEP", "RXCONT">>, <<"RXCONT", "SLEEP">>}

\* C4: every change of the radio mode is one of the legal transitions
\* Sleep-Standby, Standby-Sleep, Standby-Tx, Tx-Sleep, Sleep-RxContinuous,
\* RxContinuous-Sleep.
C4_LegalTransitions ==
    [][mode' # mode => <<mode, mode'>> \in LegalTransitions]_vars

\* C5: the frame is written and Tx is commanded only while the radio mode
\* is Standby, and on_tx_done leaves the radio in RxContinuous.
C5_TransmitProtocol ==
    [][/\ (TWrite \/ TTx) => mode = "STDBY"
       /\ TxDoneRxCont => mode' = "RXCONT"]_vars

\* C6: once the stop signal is set, the shutdown path (the radio commanded
\* to Sleep, the board torn down) has run only if the transmitter has
\* exited.
C6_ShutdownAfterTransmitter ==
    (stop_event /\ mpc \in {"m_teardown", "m_close", "m_exit"}) => tpc = "t_done"

EndsInNul(text) == Len(text) > 0 /\ text[Len(text)] = 0

\* C7: for a payload of at most 100 and a timestamp of at most 20 encoded
\* bytes, neither ending in NUL, parse_packet(create_packet(...)) returns a
\* packet with the same device_id, type, priority, payload and timestamp.
C7_RoundTrip ==
    (/\ cstep = "parsed_created"
     /\ Len(Utf8Encode(args.payload_str)) <= PAYLOAD_SIZE
     /\ Len(Utf8Encode(args.timestamp_str)) <= TIMESTAMP_SIZE
     /\ ~EndsInNul(args.payload_str)
     /\ ~EndsInNul(args.timestamp_str))
        => /\ parsed # None
           /\ parsed[1].device_id = args.device_id
           /\ parsed[1].type = args.packet_type
           /\ parsed[1].priority = args.priority
           /\ parsed[1].payload = args.payload_str
           /\ parsed[1].timestamp = args.timestamp_str

\* A payload of two-byte characters that fills the 100 bytes exactly came
\* back from the round trip.
C7_Witness ==
    /\ cstep = "parsed_created"
    /\ args.payload_str = Rep(233, PAYLOAD_SIZE \div 2)
    /\ parsed # None
    /\ parsed[1].payload = args.payload_str

\* C8: create_packet returns exactly 126 bytes for every payload and
\* timestamp length: little-endian device_id, type, priority, the first 100
\* payload bytes and the first 20 timestamp bytes, each right-padded with
\* zero bytes, and the little-endian CRC-16 of the 124 bytes before it.
C8_FrameLayout ==
    cstep = "created" =>
        LET pb == Utf8Encode(args.payload_str)
            tb == Utf8Encode(args.timestamp_str)
        IN  /\ Len(frame) = 126
            /\ frame[1] = args.device_id % 256
            /\ frame[2] = args.device_id \div 256
            /\ frame[3] = args.packet_type
            /\ frame[4] = args.priority
            /\ \A i \in 1..100 : frame[4 + i] = IF i <= Len(pb) THEN pb[i] ELSE 0
            /\ \A i \in 1..20 : frame[104 + i] = IF i <= Len(tb) THEN tb[i] ELSE 0
            /\ frame[125] + 256 * frame[126] = calculate_crc16(SubSeq(frame, 1, 124))
            /\ \A i \in 1..126 : frame[i] \in 0..255

\* A frame was built from an over-length payload and an over-length
\* timestamp.
C8_Witness ==
    /\ cstep = "created"
    /\ Len(Utf8Encode(args.payload_str)) > PAYLOAD_SIZE
    /\ Len(Utf8Encode(args.timestamp_str)) > TIMESTAMP_SIZE
    /\ Len(frame) = PACKET_SIZE

\* C9: parse_packet on an input whose length is not 126 returns None and
\* builds no packet.
C9_WrongLengthIsNone ==
    (cstep \in {"parsed_created", "parsed_corrupted", "parsed_resized"}
     /\ Len(frame) # 126) => parsed = None

\* A frame one byte too long was refused.
C9_Witness ==
    /\ cstep = "parsed_resized"
    /\ Len(frame) = PACKET_SIZE + 1
    /\ parsed = None

\* C10: calculate_crc16 stays within 16 bits, and for the ASCII bytes
\* "123456789" it is 0x4B37 (the check value of CRC-16/MODBUS).
C10_CrcModbus ==
    cstep = "crc" =>
        /\ crcOut \in 0..65535
        /\ crcData = TextCheck => crcOut = 19255

\* The checksum of "123456789" was computed.
C10_Witness == cstep = "crc" /\ crcData = TextCheck /\ crcOut = 19255

\* C11: every frame the periodic transmitter builds and sends is a
\* KEEPALIVE frame: its type byte is 0x03, its payload field holds the
\* marker text "DUMMY DATA", and its timestamp field holds a local time
\* written as DD-MM-YYYY HH:MM:SS.
C11_SendsKeepalive ==
    tPacket # <<>> =>
        /\ tPacket[3] = TYPE_KEEPALIVE
        /\ SubSeq(tPacket, 5, 4 + PAYLOAD_SIZE)
               = Utf8Encode(TextDummy) \o Rep(0, PAYLOAD_SIZE - Len(TextDummy))
        /\ StrptimeOk(SubSeq(tPacket, 5 + PAYLOAD_SIZE, 3 + PAYLOAD_SIZE + TIMESTAMP_SIZE))
        /\ tPacket[4 + PAYLOAD_SIZE + TIMESTAMP_SIZE] = 0

\* on_rx_done at or past its rearm
AtRearm == {"rx_sleep", "rx_reset", "rx_rxcont", "rx_return"}

\* C12: a failed sink write stays inside on_rx_done and changes nothing
\* later: the invocation whose write raised runs on to its rearm; the point
\* is held only while its write runs and is never kept, retried or written
\* afterwards (each invocation accounts for at most one write or one
\* error, and no point with a timestamp the sink rejects is ever written);
\* and every invocation of a decoded frame, whatever failed before it,
\* ends with the indicator of its type, the full rearm sequence and, when
\* its write returned, its own point as the last one written.
C12_SinkFailureContained ==
    /\ rxOutcome = "sink_raised" => cpc \in AtRearm
    /\ sinkPending # None => cpc = "rx_sink"
    /\ Len(sinkWrites) + sinkErrors <= packet_count
    /\ \A i \in 1..Len(sinkWrites) : ~InsertRaisesOnTimestamp(sinkWrites[i].timestamp)
    /\ (cpc = "rx_return" /\ packet_info # None) =>
          /\ blinks = <<_indicate_packet_received(packet_info[1].type)>>
          /\ rxCmds = RearmSequence
          /\ rxOutcome \in {"decoded", "sink_raised"}
          /\ rxOutcome = "decoded" =>
                /\ sinkWrites # <<>>
                /\ sinkWrites[Len(sinkWrites)] =
                       SinkPoint(packet_info[1],
                                 _parse_gps_payload(packet_info[1].payload))

\* After an earlier sink error, a later frame was decoded, written and the
\* radio rearmed.
C12_Witness ==
    /\ sinkErrors >= 1
    /\ cpc = "rx_return"
    /\ rxOutcome = "decoded"
    /\ rxCmds = RearmSequence
    /\ Len(sinkWrites) >= 1

\* C13: insert_into_influxdb reports its outcome as a boolean: the call
\* made by on_rx_done for a decoded frame ends by returning True (point
\* written) or by returning False (write failed), never by raising.
C13_InsertReturnsBoolean ==
    (packet_info # None /\ cpc \in AtRearm)
        => rxOutcome \in {"decoded", "sink_returned_false"}

\* C14: for every 126-byte frame parse_packet returns a packet, whose type
\* is the type byte and whose type name is GPS for 0x01, SOS for 0x02,
\* KEEPALIVE for 0x03 and Unknown for every other byte value.
C14_TypeNames ==
    (cstep \in {"parsed_created", "parsed_corrupted"} /\ Len(frame) = 126) =>
        /\ parsed # None
        /\ parsed[1].type = frame[3]
        /\ parsed[1].type_name =
               CASE frame[3] = 1 -> "GPS"
                 [] frame[3] = 2 -> "SOS"
                 [] frame[3] = 3 -> "KEEPALIVE"
                 [] OTHER -> "Unknown"

\* A frame with type byte 0xFF was parsed to a packet of type Unknown.
C14_Witness ==
    /\ cstep = "parsed_created"
    /\ frame[3] = 255
    /\ parsed # None
    /\ parsed[1].type_name = "Unknown"

\* C15: _parse_gps_payload returns the coordinates written in "lat,lon"
\* (altitude 0.0) and in "lat,lon,alt"; for empty text, text without a
\* comma and text one of whose first three parts is not a number it returns
\* all three unset; it never returns some set and some unset.
C15_GpsPayload ==
    cstep = "gps" =>
        /\ \A c \in GpsWellFormed : gpsText = c.text => gpsOut = c.expect
        /\ gpsText \in GpsMalformed => gpsOut = <<None, None, None>>
        /\ \/ \A k \in 1..3 : gpsOut[k] = None
           \/ \A k \in 1..3 : gpsOut[k] # None
        /\ (gpsOut[1] # None /\ Cardinality(CommaSet(gpsText)) = 1)
               => gpsOut[3] = <<(<<0, 0>>)>>

\* "1,2,abc": two numbers and a third part that is not one gave all three
\* unset.
C15_Witness ==
    /\ cstep = "gps"
    /\ gpsText = <<49, 44, 50, 44, 97, 98, 99>>
    /\ gpsOut = <<None, None, None>>

\* C16: the radio parameters are written only while the radio mode is
\* Sleep (and the write leaves it there), and no step puts the radio into
\* RxContinuous unless the parameters have been written.
C16_ConfigureBeforeListening ==
    [][/\ configured' # configured => (mode = "SLEEP" /\ mode' = "SLEEP")
       /\ mode' = "RXCONT" => configured']_vars

\* The configured radio was put into RxContinuous by start_listening.
C16_Witness ==
    /\ mpc = "m_spawn"
    /\ configured
    /\ mode = "RXCONT"

\* C17: a sink write that has not returned does not hold back the rearm:
\* whenever a point's write is outstanding, on_rx_done is at or past its
\* rearm commands (or has returned), not waiting for the write.
C17_RearmNotBehindSink ==
    sinkPending # None => cpc \in AtRearm \cup {"idle"}

\* How far periodic_send_thread is from its end once the stop signal is
\* set: one more for every step it still has to take.
StopRank(pc) ==
    CASE pc = "t_done" -> 0
      [] pc = "t_check" -> 1
      [] pc = "t_wait" -> 2
      [] pc = "t_tick" -> 3
      [] pc = "t_rxcont" -> 4
      [] pc = "t_reset" -> 5
      [] pc = "t_sleep" -> 6
      [] pc = "t_settle" -> 7
      [] pc = "t_tx" -> 8
      [] pc = "t_write" -> 9
      [] pc = "t_stdby" -> 10
      [] pc = "t_build" -> 11
      [] OTHER -> 12

\* C18: the stop signal, once set, stays set, and from then on every step
\* of the periodic transmitter brings it nearer to its end: the test at the
\* top of the loop leads out of it, not into a new cycle; the head of the
\* wait loop leads out of the wait, not into another tick; so that only the
\* cycle in progress, or the one tick in progress, is finished.
C18_StopsPromptly ==
    [][/\ stop_event => stop_event'
       /\ (stop_event /\ tpc' # tpc) => StopRank(tpc') < StopRank(tpc)]_vars

\* The transmitter has ended after a wait it left before the interval was
\* over.
C18_Witness ==
    /\ stop_event
    /\ tpc = "t_done"
    /\ tCount > 0
    /\ tTick < Interval

\* C19: an invocation of on_rx_done whose frame did not parse triggers the
\* decode-failure indicator (rx_led, 0.05 s on, 0.05 s off, 3 repeats, in
\* the background) and nothing else, and writes nothing to the sink; an
\* invocation whose frame parsed triggers the indicator of its type and
\* not the decode-failure one.
C19_FailurePathOnly ==
    [][/\ (cpc \in RxPcs /\ packet_info = None) =>
             /\ sinkPending = None
             /\ sinkWrites' = sinkWrites
             /\ cpc \in AtRearm =>
                   /\ blinks = <<(<<"rx_led", 5, 5, 3, TRUE>>)>>
                   /\ rxOutcome = "parse_failed"
       /\ (cpc \in AtRearm \cup {"rx_sink"} /\ packet_info # None) =>
             /\ blinks = <<_indicate_packet_received(packet_info[1].type)>>
             /\ blinks[1] # <<"rx_led", 5, 5, 3, TRUE>>]_vars

\* An invocation whose frame did not parse is about to return, the
\* decode-failure indicator triggered.
C19_Witness ==
    /\ cpc = "rx_return"
    /\ packet_info = None
    /\ rxOutcome = "parse_failed"
    /\ blinks = <<FailureBlink>>

\* C20: whenever the periodic transmitter is in its inter-send wait, the
\* radio mode it commanded last in the cycle just ended (if it commanded
\* any) is RxContinuous: it has not left the radio in Standby or Tx.
C20_WaitsInRxContinuous ==
    (tpc \in {"t_wait", "t_tick"} /\ tLastMode # "none") => tLastMode = "RXCONT"

\* C21: packet_count is 0 at the start; every step that starts an
\* invocation of on_rx_done (the callback thread leaves idle for the
\* handler) adds exactly one to it, before the frame is parsed or the sink
\* called; and no other step (transmitter, on_tx_done, main program, the
\* rest of on_rx_done) changes it: it counts the invocations so far.
C21_CountsInvocations ==
    /\ packet_count = 0
    /\ [][/\ (cpc = "idle" /\ cpc' \in RxPcs) => packet_count' = packet_count + 1
          /\ packet_count' # packet_count => (cpc = "idle" /\ cpc' = "rx_parsed")]_vars

\* Two invocations, one whose sink write raised and one whose frame did
\* not parse, and a transmission in between: the count is 2.
C21_Witness ==
    /\ packet_count = 2
    /\ sinkErrors = 1
    /\ sinkWrites = <<>>
    /\ rxOutcome = "parse_failed"
    /\ tCount > 0

====
